---- MODULE Spec2Model ----
(***************************************************************************)
(* Analytics aggregation of the dashboard (AnalyticsView.tsx): the fetch   *)
(* of the report collection and the four builders that derive the          *)
(* leaderboard, the per-indicator comparison, the monthly trend and the    *)
(* activity composition from it; and the report queries of the reports     *)
(* list (ReportsManagement.tsx) and of the dashboard statistics            *)
(* (DashboardStats.tsx).                                                   *)
(***************************************************************************)
EXTENDS Integers, Sequences, FiniteSets, TLC

(***************************************************************************)
(* Bounds of the model.                                                    *)
(***************************************************************************)
\* longest report collection of the leaderboard and trend input families
MaxLen == 3
\* longest report collection of the comparison input family
MaxLenPerf == 4
\* Math.random() draws of the leaderboard change are -MaxDraw..MaxDraw tenths
MaxDraw == 1
\* longest report collection of the composition input family
MaxLenComp == 3
\* longest report collection while two invocations overlap
MaxLenOverlap == 1
\* longest content of the reports table seen by callers of both roles
MaxLenScope == 2
\* longest content of the reports table of the reports list
MaxLenManagement == 2
\* toasts of the approve and reject buttons that are kept
MaxToasts == 2
\* Headers that are mounted, one after the other or side by side
MaxMounts == 2
\* notification events that one channel delivers
MaxEvents == 1
\* most unread notifications of the user
MaxUnread == 1
\* longest report collection of a view that is left running
MaxLenLive == 2
\* periods of 30 seconds that pass after the mount
MaxTicks == 2
\* longest report collection with records that miss fields
MaxLenMalformed == 2

(***************************************************************************)
(* The state of the AnalyticsView component, of the report store it       *)
(* queries, and of the two other components that query the same store.     *)
(***************************************************************************)
VARIABLES
    reportsTable,               \* the rows of the table 'reports' of the store
    userRole,                   \* the role the components are rendered for
    authUser,                   \* supabase.auth.getUser(): an id or Absent
    queryReports,               \* const reports of the running invocation
    pc,                         \* position of the running fetchAnalyticsData
    loading,
    leaderboardData,
    performanceComparisonData,
    trendData,
    activityCompositionData,
    liveData,
    errorToast,                 \* the latest invocation showed the error toast
    aggregated,                 \* some invocation has run the four builders
    pc2,                        \* position of an overlapping invocation
    queryReports2,              \* const reports of the overlapping invocation
    latest,                     \* the invocation that was initiated last
    managementReports,          \* ReportsManagement: reports
    managementLoading,          \* ReportsManagement: loading
    managementPc,               \* position of the running fetchReports
    managementErrorToast,       \* the latest fetchReports showed the error toast
    stats,                      \* DashboardStats: stats.totalReports etc.
    statsLoading,               \* DashboardStats: loading
    statsPc,                    \* position of the running fetchStats
    statsErrorToast,            \* the latest fetchStats showed the error toast
    intervalId,                 \* the live-update effect: not run yet, returned
                                \* without a timer, or holding its setInterval
    elapsed,                    \* periods of 30 seconds since the mount
    activities,                 \* RecentActivity: activities
    activityLoading,            \* RecentActivity: loading
    activityPc,                 \* position of the running fetchRecentActivity
    activityErrorToast,         \* the latest fetchRecentActivity showed the toast
    searchTerm,                 \* ReportsManagement: searchTerm, a list of characters
    statusFilter,               \* ReportsManagement: statusFilter
    indicatorFilter,            \* ReportsManagement: indicatorFilter
    selectedReports,            \* ReportsManagement: selectedReports, a list of ids
    managementToasts,           \* titles of the toasts of the list's buttons
    headers,                    \* the Header components that were mounted
    unread                      \* unread rows of the table 'notifications'

vars == <<reportsTable, userRole, authUser, queryReports, pc, loading,
          leaderboardData, performanceComparisonData, trendData,
          activityCompositionData, liveData, errorToast, aggregated,
          pc2, queryReports2, latest, managementReports, managementLoading,
          managementPc, managementErrorToast, stats, statsLoading, statsPc,
          statsErrorToast, intervalId, elapsed, activities, activityLoading,
          activityPc, activityErrorToast, searchTerm, statusFilter,
          indicatorFilter, selectedReports, managementToasts, headers,
          unread>>

\* groups of variables that belong together
store == <<reportsTable, userRole, authUser>>
management == <<managementReports, managementLoading, managementPc,
                managementErrorToast>>
dashboard == <<stats, statsLoading, statsPc, statsErrorToast>>
overlapping == <<pc2, queryReports2>>
live == <<intervalId, elapsed>>
activity == <<activities, activityLoading, activityPc, activityErrorToast>>
filters == <<searchTerm, statusFilter, indicatorFilter>>
selection == <<filters, selectedReports, managementToasts>>
header == <<headers, unread>>
\* what the fetches of the three components leave alone
page == <<live, activity, selection, header>>

aggregates == <<leaderboardData, performanceComparisonData, trendData,
                activityCompositionData>>
analytics == <<queryReports, pc, loading, aggregates, liveData, errorToast,
               aggregated, latest>>

(***************************************************************************)
(* JavaScript values.                                                      *)
(*   A name (sbu_name, indicator_type) is a string; null, undefined and    *)
(*   the empty string are all falsy and are modelled by Absent.            *)
(*   calculated_score is null (NoScore) or a number (<<v>>), so that a     *)
(*   score of 0 and a missing score stay different values.                 *)
(***************************************************************************)
Absent == ""
NoScore == << >>

\* r.calculated_score !== null
ScorePresent(s) == s # NoScore
\* !report.calculated_score  (null and 0 are both falsy)
ScoreFalsy(s) == s = NoScore \/ s[1] = 0
\* !sbuName, !indicator
NameFalsy(n) == n = Absent

Range(s) == {s[i] : i \in 1..Len(s)}
Front(s) == SubSeq(s, 1, Len(s) - 1)
Last(s) == s[Len(s)]

RECURSIVE SumSeq(_)
\* scores.reduce((sum, score) => sum + score, 0)
SumSeq(s) == IF s = << >> THEN 0 ELSE SumSeq(Front(s)) + Last(s)

(***************************************************************************)
(* Property order of a plain object (Object.entries): the keys that are    *)
(* canonical array indices come first in ascending numeric order, then the *)
(* other string keys in insertion order.  The keys of the model that are   *)
(* array indices are "0" .. "12".                                          *)
(***************************************************************************)
ArrayIndexKeys ==
    <<"0", "1", "2", "3", "4", "5", "6", "7", "8", "9", "10", "11", "12">>
IsArrayIndex(k) == \E i \in 1..Len(ArrayIndexKeys) : ArrayIndexKeys[i] = k

\* keys: the property names in insertion order
ObjectKeys(keys) ==
    SelectSeq(ArrayIndexKeys, LAMBDA d : d \in Range(keys))
        \o SelectSeq(keys, LAMBDA k : ~IsArrayIndex(k))

(***************************************************************************)
(* Number formatting.  Means are kept as (sum, n) pairs of integers; the   *)
(* scores of the model are non-negative, and with at most MaxLenPerf + 1   *)
(* scores per group every tie of the rounding falls on a dyadic value, on  *)
(* which the double arithmetic of the code is exact.                       *)
(***************************************************************************)
\* Number((sum / n).toFixed(1)), in tenths: nearest tenth, ties upward
ToFixed1(sum, n) == (20 * sum + n) \div (2 * n)
\* Math.round(sum / n): nearest integer, ties upward
MathRound(sum, n) == (2 * sum + n) \div (2 * n)

(***************************************************************************)
(* generateLeaderboardData                                                 *)
(***************************************************************************)
\* position of property k among the inserted keys
IndexOf(keys, k) == CHOOSE i \in 1..Len(keys) : keys[i] = k

\* the callback of reports.forEach: sbuScores after one more report
sbuScoresForEach(acc, report) ==
    LET sbuName == report.sbu_name
    IN  IF NameFalsy(sbuName) \/ ScoreFalsy(report.calculated_score)
        THEN acc
        ELSE LET withSbu ==
                     IF sbuName \in Range(acc.keys) THEN acc
                     ELSE [keys |-> Append(acc.keys, sbuName),
                           scores |-> Append(acc.scores, << >>)]
                 i == IndexOf(withSbu.keys, sbuName)
             IN  [withSbu EXCEPT !.scores[i] = Append(@, report.calculated_score[1])]

RECURSIVE sbuScores(_)
\* the sbuScores object after reports.forEach: keys in insertion order and
\* the scores pushed under each key (totalReports is their number)
sbuScores(reports) ==
    IF reports = << >> THEN [keys |-> << >>, scores |-> << >>]
    ELSE sbuScoresForEach(sbuScores(Front(reports)), Last(reports))

\* the scores stored under key k of a grouping object
ScoresOf(obj, k) == obj.scores[IndexOf(obj.keys, k)]

\* b.score - a.score <= 0: a does not sort after b
ScoreAtLeast(a, b) == a.sum * b.n >= b.sum * a.n

RECURSIVE SortByScore(_)
\* Array.prototype.sort((a, b) => b.score - a.score): descending and stable
SortByScore(items) ==
    IF items = << >> THEN << >>
    ELSE LET sorted == SortByScore(Front(items))
             x == Last(items)
             p == Cardinality({i \in 1..Len(sorted) : ScoreAtLeast(sorted[i], x)})
         IN  SubSeq(sorted, 1, p) \o <<x>> \o SubSeq(sorted, p + 1, Len(sorted))

\* item.change > 0 ? `+${item.change.toFixed(1)}` : item.change.toFixed(1)
FormatChange(c) == <<IF c > 0 THEN "+" ELSE "", c>>

\* Object.entries(sbuScores).map(...): one item per unit; random[i] is the
\* Math.random() draw of the i-th entry, in tenths
LeaderboardItems(reports, random) ==
    LET obj == sbuScores(reports)
        ks == ObjectKeys(obj.keys)
    IN  [i \in 1..Len(ks) |->
            [sbu |-> ks[i],
             sum |-> SumSeq(ScoresOf(obj, ks[i])),
             n |-> Len(ScoresOf(obj, ks[i])),
             totalReports |-> Len(ScoresOf(obj, ks[i])),
             change |-> random[i]]]

\* the leaderboard handed to setLeaderboardData
generateLeaderboardData(reports, random) ==
    LET sorted == SortByScore(LeaderboardItems(reports, random))
    IN  [index \in 1..Len(sorted) |->
            [rank |-> index,
             sbu |-> sorted[index].sbu,
             score |-> ToFixed1(sorted[index].sum, sorted[index].n),
             change |-> FormatChange(sorted[index].change)]]

(***************************************************************************)
(* generatePerformanceData                                                 *)
(***************************************************************************)
\* the callback of reports.forEach: indicatorPerformance after one more report
\* variant: a report without indicator_type is grouped under 'Unknown', as in
\* the composition
indicatorPerformanceForEachUnknown(acc, report) ==
    LET sbuName == report.sbu_name
        indicator == IF NameFalsy(report.indicator_type) THEN "Unknown"
                     ELSE report.indicator_type
        score == report.calculated_score
    IN  IF NameFalsy(sbuName) \/ ScoreFalsy(score)
        THEN acc
        ELSE LET withInd ==
                     IF indicator \in Range(acc.keys) THEN acc
                     ELSE [keys |-> Append(acc.keys, indicator),
                           subs |-> Append(acc.subs,
                                           [keys |-> << >>, scores |-> << >>])]
                 i == IndexOf(withInd.keys, indicator)
                 sub == withInd.subs[i]
                 withSbu ==
                     IF sbuName \in Range(sub.keys) THEN sub
                     ELSE [keys |-> Append(sub.keys, sbuName),
                           scores |-> Append(sub.scores, << >>)]
                 j == IndexOf(withSbu.keys, sbuName)
                 pushed == [withSbu EXCEPT !.scores[j] = Append(@, score[1])]
             IN  [withInd EXCEPT !.subs[i] = pushed]
indicatorPerformanceForEach(acc, report) ==
    LET sbuName == report.sbu_name
        indicator == report.indicator_type
        score == report.calculated_score
    IN  IF NameFalsy(sbuName) \/ NameFalsy(indicator) \/ ScoreFalsy(score)
        THEN acc
        ELSE LET withInd ==
                     IF indicator \in Range(acc.keys) THEN acc
                     ELSE [keys |-> Append(acc.keys, indicator),
                           subs |-> Append(acc.subs,
                                           [keys |-> << >>, scores |-> << >>])]
                 i == IndexOf(withInd.keys, indicator)
                 sub == withInd.subs[i]
                 withSbu ==
                     IF sbuName \in Range(sub.keys) THEN sub
                     ELSE [keys |-> Append(sub.keys, sbuName),
                           scores |-> Append(sub.scores, << >>)]
                 j == IndexOf(withSbu.keys, sbuName)
                 pushed == [withSbu EXCEPT !.scores[j] = Append(@, score[1])]
             IN  [withInd EXCEPT !.subs[i] = pushed]

RECURSIVE indicatorPerformance(_)
\* the indicatorPerformance object after reports.forEach: per indicator (in
\* insertion order) an object of score lists per unit (in insertion order)
indicatorPerformance(reports) ==
    IF reports = << >> THEN [keys |-> << >>, subs |-> << >>]
    ELSE indicatorPerformanceForEach(indicatorPerformance(Front(reports)),
                                     Last(reports))

RECURSIVE Concat(_)
\* totalScores.push(...scores) over the entries of one indicator
Concat(lists) == IF lists = << >> THEN << >> ELSE Concat(Front(lists)) \o Last(lists)

\* one row of comparisonData: the rounded mean per unit and the rounded mean
\* of all the scores of the indicator
ComparisonRow(indicator, sbuData) ==
    LET ks == ObjectKeys(sbuData.keys)
        totalScores == Concat([i \in 1..Len(ks) |-> ScoresOf(sbuData, ks[i])])
    IN  [indicator |-> indicator,
         cells |-> [sbu \in Range(ks) |->
                      MathRound(SumSeq(ScoresOf(sbuData, sbu)),
                                Len(ScoresOf(sbuData, sbu)))],
         rata_rata |-> IF Len(totalScores) > 0
                       THEN MathRound(SumSeq(totalScores), Len(totalScores))
                       ELSE 0]

\* the comparisonData handed to setPerformanceComparisonData
generatePerformanceData(reports) ==
    LET obj == indicatorPerformance(reports)
        ks == ObjectKeys(obj.keys)
    IN  [r \in 1..Len(ks) |->
            ComparisonRow(ks[r], obj.subs[IndexOf(obj.keys, ks[r])])]

(***************************************************************************)
(* generateTrendData                                                       *)
(***************************************************************************)
\* toLocaleDateString('id-ID', { month: 'short' })
MonthShort ==
    <<"Jan", "Feb", "Mar", "Apr", "Mei", "Jun",
      "Jul", "Agu", "Sep", "Okt", "Nov", "Des">>
\* variant: { month: 'numeric' }, whose keys are array indices
monthKeyNumeric(created_at) == ArrayIndexKeys[created_at.month + 1]
\* variant: { month: 'short', year: '2-digit' }, a key that tells the years apart
MonthShortOf2025 ==
    <<"Jan 25", "Feb 25", "Mar 25", "Apr 25", "Mei 25", "Jun 25",
      "Jul 25", "Agu 25", "Sep 25", "Okt 25", "Nov 25", "Des 25">>
monthKeyWithYear(created_at) ==
    IF created_at.year = 2025 THEN MonthShortOf2025[created_at.month]
    ELSE MonthShort[created_at.month]
\* created_at is the calendar year and month of the submission
monthKey(created_at) == MonthShort[created_at.month]

IsApproved(status) == status = "approved" \/ status = "completed"
\* variant: system_rejected forgotten
IsRejectedOnly(status) == status = "rejected"
IsRejected(status) == status = "rejected" \/ status = "system_rejected"

\* variant: the bucket is created anew for every report (no guard)
monthlyDataForEachNoGuard(acc, report) ==
    LET key == monthKey(report.created_at)
        fresh == [total |-> 1,
                  approved |-> IF IsApproved(report.status) THEN 1 ELSE 0,
                  rejected |-> IF ~IsApproved(report.status) /\ IsRejected(report.status)
                               THEN 1 ELSE 0]
    IN  IF key \in Range(acc.keys)
        THEN [acc EXCEPT !.data[IndexOf(acc.keys, key)] = fresh]
        ELSE [keys |-> Append(acc.keys, key), data |-> Append(acc.data, fresh)]

\* the callback of reports.forEach: monthlyData after one more report
monthlyDataForEach(acc, report) ==
    LET key == monthKey(report.created_at)
        withKey ==
            IF key \in Range(acc.keys) THEN acc
            ELSE [keys |-> Append(acc.keys, key),
                  data |-> Append(acc.data,
                                  [total |-> 0, approved |-> 0, rejected |-> 0])]
        i == IndexOf(withKey.keys, key)
        d == withKey.data[i]
    IN  [withKey EXCEPT !.data[i] =
           [total |-> d.total + 1,
            approved |-> IF IsApproved(report.status)
                         THEN d.approved + 1 ELSE d.approved,
            rejected |-> IF ~IsApproved(report.status) /\ IsRejected(report.status)
                         THEN d.rejected + 1 ELSE d.rejected]]

RECURSIVE monthlyData(_)
\* the monthlyData object after reports.forEach
monthlyData(reports) ==
    IF reports = << >> THEN [keys |-> << >>, data |-> << >>]
    ELSE monthlyDataForEach(monthlyData(Front(reports)), Last(reports))

\* Object.entries(monthlyData).map(...)
trendArray(obj) ==
    LET ks == ObjectKeys(obj.keys)
    IN  [i \in 1..Len(ks) |->
            LET data == obj.data[IndexOf(obj.keys, ks[i])]
            IN  [month |-> ks[i],
                 total_laporan |-> data.total,
                 approved |-> data.approved,
                 rejected |-> data.rejected]]

\* variant: monthlyData lives outside the function, so that a later call
\* counts on top of the earlier one
generateTrendDataShared(reports) ==
    trendArray(monthlyData(IF aggregated THEN reports \o reports ELSE reports))
\* the trendArray handed to setTrendData
generateTrendData(reports) == trendArray(monthlyData(reports))

(***************************************************************************)
(* generateCompositionData                                                 *)
(***************************************************************************)
\* variant: a report without indicator_type is skipped, as in the other builders
indicatorCountsForEachSkipAbsent(acc, report) ==
    IF NameFalsy(report.indicator_type) THEN acc
    ELSE IF report.indicator_type \in Range(acc.keys)
         THEN [acc EXCEPT !.counts[IndexOf(acc.keys, report.indicator_type)] = @ + 1]
         ELSE [keys |-> Append(acc.keys, report.indicator_type),
               counts |-> Append(acc.counts, 1)]
\* the callback of reports.forEach: indicatorCounts after one more report
indicatorCountsForEach(acc, report) ==
    LET indicator == IF NameFalsy(report.indicator_type) THEN "Unknown"
                     ELSE report.indicator_type
    IN  IF indicator \in Range(acc.keys)
        THEN [acc EXCEPT !.counts[IndexOf(acc.keys, indicator)] = @ + 1]
        ELSE [keys |-> Append(acc.keys, indicator),
              counts |-> Append(acc.counts, 1)]

RECURSIVE indicatorCounts(_)
\* the indicatorCounts object after reports.forEach
indicatorCounts(reports) ==
    IF reports = << >> THEN [keys |-> << >>, counts |-> << >>]
    ELSE indicatorCountsForEach(indicatorCounts(Front(reports)), Last(reports))

colors ==
    <<"hsl(var(--primary))", "hsl(var(--secondary))", "hsl(var(--accent))",
      "hsl(var(--desmon-primary))", "hsl(var(--desmon-secondary))">>

\* the compositionArray handed to setActivityCompositionData
generateCompositionData(reports) ==
    LET obj == indicatorCounts(reports)
        ks == ObjectKeys(obj.keys)
    IN  [i \in 1..Len(ks) |->
            [name |-> ks[i],
             value |-> obj.counts[IndexOf(obj.keys, ks[i])],
             color |-> colors[((i - 1) % Len(colors)) + 1]]]

(***************************************************************************)
(* The queries of fetchAnalyticsData and the headline metrics (liveData).  *)
(* A metric that the code computes by a division is kept as the fraction   *)
(* num / den; a division by zero would show as den = 0.                    *)
(***************************************************************************)
\* created_at as a point in time, month granularity
DateKey(created_at) == created_at.year * 12 + created_at.month

\* .order('created_at', { ascending: false }), rows of one date keep their order
InsertDescending(sorted, row) ==
    SelectSeq(sorted, LAMBDA x : DateKey(x.created_at) >= DateKey(row.created_at))
    \o <<row>>
    \o SelectSeq(sorted, LAMBDA x : DateKey(x.created_at) < DateKey(row.created_at))

RECURSIVE OrderByCreatedAtDescending(_)
OrderByCreatedAtDescending(rows) ==
    IF rows = << >> THEN << >>
    ELSE InsertDescending(OrderByCreatedAtDescending(Front(rows)), Last(rows))

\* supabase.from('reports').select(...).order(...): no filter on role or user
selectReports(table) == OrderByCreatedAtDescending(table)

\* the rows of the table 'profiles'
profilesTable ==
    <<[role |-> "sbu", sbu_name |-> "A"], [role |-> "sbu", sbu_name |-> "A"],
      [role |-> "sbu", sbu_name |-> "1"], [role |-> "sbu", sbu_name |-> Absent],
      [role |-> "admin", sbu_name |-> "B"]>>

\* supabase.from('profiles').select('sbu_name').eq('role', 'sbu').not('sbu_name', 'is', null)
selectSbuUsers(profiles) ==
    SelectSeq(profiles, LAMBDA u : u.role = "sbu" /\ u.sbu_name # Absent)

Fraction(num, den) == [num |-> num, den |-> den]

\* variant: the division without its guard
approvalRateUnguarded(reports) ==
    Fraction(100 * Len(SelectSeq(reports,
                 LAMBDA r : r.status = "approved" \/ r.status = "completed")),
             Len(reports))

\* totalReports > 0 ? (approvedReports / totalReports) * 100 : 0
approvalRate(reports) ==
    LET totalReports == Len(reports)
        approvedReports ==
            Len(SelectSeq(reports,
                    LAMBDA r : r.status = "approved" \/ r.status = "completed"))
    IN  IF totalReports > 0 THEN Fraction(100 * approvedReports, totalReports)
        ELSE Fraction(0, 1)

\* reports.filter(r => r.calculated_score !== null)
completedWithScores(reports) ==
    SelectSeq(reports, LAMBDA r : r.calculated_score # NoScore)

\* completedWithScores.reduce((sum, r) => sum + (r.calculated_score || 0), 0) / length
averageScore(reports) ==
    LET scored == completedWithScores(reports)
    IN  IF Len(scored) > 0
        THEN Fraction(SumSeq([i \in 1..Len(scored) |-> scored[i].calculated_score[1]]),
                      Len(scored))
        ELSE Fraction(0, 1)

\* new Set(sbuUsers.map(u => u.sbu_name).filter(Boolean)).size
activeSBU(sbuUsers) ==
    Cardinality({sbuUsers[i].sbu_name : i \in 1..Len(sbuUsers)} \ {Absent})

\* the object handed to setLiveData
computeLiveData(reports, sbuUsers) ==
    [totalReports |-> Len(reports),
     approvalRate |-> approvalRate(reports),
     averageScore |-> averageScore(reports),
     activeSBU |-> activeSBU(sbuUsers)]

(***************************************************************************)
(* The reports query and the steps of fetchAnalyticsData.                  *)
(***************************************************************************)
STATUSES ==
    {"queued", "processing", "pending_approval", "approved", "completed",
     "rejected", "system_rejected", "failed"}

\* the rows of the reports query
ReportRecords(units, scores, indicators, statuses, dates) ==
    [sbu_name : units, calculated_score : scores, indicator_type : indicators,
     status : statuses, created_at : dates]

SeqsUpTo(S, n) == UNION {[1..k -> S] : k \in 0..n}

Jan2024 == [year |-> 2024, month |-> 1]
Mar2024 == [year |-> 2024, month |-> 3]
Jan2025 == [year |-> 2025, month |-> 1]

\* collections that vary the unit and the score
LeaderboardInputs ==
    SeqsUpTo(ReportRecords({Absent, "A", "1"},
                           {NoScore, <<0>>, <<80>>, <<90>>},
                           {"X"}, {"completed"}, {Jan2024}), MaxLen)

\* collections that vary the unit, the score and the indicator
PerformanceInputs ==
    SeqsUpTo(ReportRecords({"A", "B"}, {NoScore, <<0>>, <<100>>},
                           {"X", "Y"}, {"completed"}, {Jan2024}), MaxLenPerf)

\* collections that vary the status and the month
TrendInputs ==
    SeqsUpTo(ReportRecords({"A"}, {NoScore}, {"X"}, STATUSES,
                           {Mar2024, Jan2024}), MaxLen)

\* collections that vary the month and the year
TrendYearInputs ==
    SeqsUpTo(ReportRecords({"A"}, {NoScore}, {"X"}, {"approved", "rejected"},
                           {Jan2025, Mar2024, Jan2024}), MaxLen)

\* collections that vary the indicator, the score and the status
CompositionInputs ==
    SeqsUpTo(ReportRecords({"A"}, {NoScore, <<80>>}, {Absent, "X", "7"},
                           {"approved", "rejected"}, {Jan2024}), MaxLenComp)

\* collections in which the unit, the indicator and the score may each be
\* missing
MalformedInputs ==
    SeqsUpTo(ReportRecords({Absent, "A"}, {NoScore, <<80>>},
                           {Absent, "X"}, {"approved"}, {Mar2024, Jan2024}),
             MaxLenMalformed)
\* useState initial values; the effects have not run yet
InitView ==
    /\ queryReports = << >>
    /\ pc = "idle"
    /\ loading = TRUE
    /\ leaderboardData = << >>
    /\ performanceComparisonData = << >>
    /\ trendData = << >>
    /\ activityCompositionData = << >>
    /\ liveData = [totalReports |-> 0, approvalRate |-> Fraction(0, 1),
                   averageScore |-> Fraction(0, 1), activeSBU |-> 0]
    /\ errorToast = FALSE
    /\ aggregated = FALSE
    /\ pc2 = "idle"
    /\ queryReports2 = << >>
    /\ latest = 0
    /\ managementReports = << >>
    /\ managementLoading = TRUE
    /\ managementPc = "idle"
    /\ managementErrorToast = FALSE
    /\ stats = << >>
    /\ statsLoading = TRUE
    /\ statsPc = "idle"
    /\ statsErrorToast = FALSE
    /\ intervalId = "unset"
    /\ elapsed = 0
    /\ activities = << >>
    /\ activityLoading = TRUE
    /\ activityPc = "idle"
    /\ activityErrorToast = FALSE
    /\ searchTerm = << >>
    /\ statusFilter = "all"
    /\ indicatorFilter = "all"
    /\ selectedReports = << >>
    /\ managementToasts = << >>
    /\ headers = << >>
    /\ unread = 0

\* an administrator is signed in
InitAdmin == userRole = "admin" /\ authUser = "u1"

Init == reportsTable \in LeaderboardInputs /\ InitAdmin /\ InitView
InitPerformance == reportsTable \in PerformanceInputs /\ InitAdmin /\ InitView
InitTrend == reportsTable \in TrendInputs /\ InitAdmin /\ InitView
InitTrendYears == reportsTable \in TrendYearInputs /\ InitAdmin /\ InitView
InitMalformed == reportsTable \in MalformedInputs /\ InitAdmin /\ InitView
InitComposition == reportsTable \in CompositionInputs /\ InitAdmin /\ InitView

\* the invocation is past its last query: the awaits that are left wait for
\* promises that are already fulfilled, so JavaScript runs the invocation to
\* its end before it runs any other callback of the page
InBuilders(position) ==
    position \in {"leaderboard", "performance", "trend", "composition", "finally"}

\* useEffect(() => { fetchAnalyticsData() }, [...]): try { setLoading(true);
\* the reports query is sent
fetchAnalyticsData ==
    /\ pc = "idle"
    /\ ~InBuilders(pc2)
    /\ pc' = "reports_query"
    /\ loading' = TRUE
    /\ errorToast' = FALSE
    /\ latest' = 1
    /\ UNCHANGED <<queryReports, aggregates, liveData, aggregated>>
    /\ UNCHANGED <<store, page, overlapping, management, dashboard>>

\* variant: the catch block also clears what is displayed
CatchFinallyClearing ==
    /\ errorToast' = TRUE
    /\ loading' = FALSE
    /\ pc' = "idle"
    /\ leaderboardData' = << >>
    /\ performanceComparisonData' = << >>
    /\ trendData' = << >>
    /\ activityCompositionData' = << >>
    /\ liveData' = [totalReports |-> 0, approvalRate |-> Fraction(0, 1),
                    averageScore |-> Fraction(0, 1), activeSBU |-> 0]
    /\ UNCHANGED <<queryReports, aggregated, latest>>
    /\ UNCHANGED <<store, page, overlapping, management, dashboard>>

\* variant: the catch block shows nothing
CatchFinallySilent ==
    /\ loading' = FALSE
    /\ pc' = "idle"
    /\ UNCHANGED <<queryReports, aggregates, liveData, errorToast, aggregated,
                   latest>>
    /\ UNCHANGED <<store, page, overlapping, management, dashboard>>
\* catch (error) { toast({...}) } finally { setLoading(false) }
CatchFinally ==
    /\ errorToast' = TRUE
    /\ loading' = FALSE
    /\ pc' = "idle"
    /\ UNCHANGED <<queryReports, aggregates, liveData, aggregated, latest>>
    /\ UNCHANGED <<store, page, overlapping, management, dashboard>>

\* the reports query answers: if (reportsError) throw reportsError
ReportsQueryReturns ==
    /\ pc = "reports_query"
    /\ ~InBuilders(pc2)
    /\ \/ CatchFinally
       \/ /\ queryReports' = selectReports(reportsTable)
          /\ pc' = "profiles_query"
          /\ UNCHANGED <<loading, aggregates, liveData, errorToast, aggregated,
                         latest>>
          /\ UNCHANGED <<store, page, overlapping, management, dashboard>>

\* the profiles query answers: if (sbuError) throw sbuError; setLiveData({...})
ProfilesQueryReturns ==
    /\ pc = "profiles_query"
    /\ ~InBuilders(pc2)
    /\ \/ CatchFinally
       \/ /\ liveData' = computeLiveData(queryReports, selectSbuUsers(profilesTable))
          /\ pc' = "leaderboard"
          /\ UNCHANGED <<queryReports, loading, aggregates, errorToast,
                         aggregated, latest>>
          /\ UNCHANGED <<store, page, overlapping, management, dashboard>>

\* await generateLeaderboardData(reports || [])
GenerateLeaderboard ==
    /\ pc = "leaderboard"
    /\ ~InBuilders(pc2)
    /\ \E random \in [1..Len(sbuScores(queryReports).keys) -> -MaxDraw..MaxDraw] :
          leaderboardData' = generateLeaderboardData(queryReports, random)
    /\ pc' = "performance"
    /\ UNCHANGED <<queryReports, loading, performanceComparisonData, trendData,
                   activityCompositionData, liveData, errorToast, aggregated,
                   latest>>
    /\ UNCHANGED <<store, page, overlapping, management, dashboard>>

\* await generatePerformanceData(reports || [])
GeneratePerformance ==
    /\ pc = "performance"
    /\ ~InBuilders(pc2)
    /\ performanceComparisonData' = generatePerformanceData(queryReports)
    /\ pc' = "trend"
    /\ UNCHANGED <<queryReports, loading, leaderboardData, trendData,
                   activityCompositionData, liveData, errorToast, aggregated,
                   latest>>
    /\ UNCHANGED <<store, page, overlapping, management, dashboard>>

\* await generateTrendData(reports || [])
GenerateTrend ==
    /\ pc = "trend"
    /\ ~InBuilders(pc2)
    /\ trendData' = generateTrendData(queryReports)
    /\ pc' = "composition"
    /\ UNCHANGED <<queryReports, loading, leaderboardData, performanceComparisonData,
                   activityCompositionData, liveData, errorToast, aggregated,
                   latest>>
    /\ UNCHANGED <<store, page, overlapping, management, dashboard>>

\* await generateCompositionData(reports || [])
GenerateComposition ==
    /\ pc = "composition"
    /\ ~InBuilders(pc2)
    /\ activityCompositionData' = generateCompositionData(queryReports)
    /\ pc' = "finally"
    /\ aggregated' = TRUE
    /\ UNCHANGED <<queryReports, loading, leaderboardData, performanceComparisonData,
                   trendData, liveData, errorToast, latest>>
    /\ UNCHANGED <<store, page, overlapping, management, dashboard>>

\* finally { setLoading(false) }
Finally ==
    /\ pc = "finally"
    /\ ~InBuilders(pc2)
    /\ loading' = FALSE
    /\ pc' = "idle"
    /\ UNCHANGED <<queryReports, aggregates, liveData, errorToast, aggregated,
                   latest>>
    /\ UNCHANGED <<store, page, overlapping, management, dashboard>>

Next ==
    \/ fetchAnalyticsData
    \/ ReportsQueryReturns
    \/ ProfilesQueryReturns
    \/ GenerateLeaderboard
    \/ GeneratePerformance
    \/ GenerateTrend
    \/ GenerateComposition
    \/ Finally

Spec == Init /\ [][Next]_vars
SpecPerformance == InitPerformance /\ [][Next]_vars
SpecTrend == InitTrend /\ [][Next]_vars
SpecTrendYears == InitTrendYears /\ [][Next]_vars
SpecMalformed == InitMalformed /\ [][Next]_vars
SpecComposition == InitComposition /\ [][Next]_vars

(***************************************************************************)
(* Overlapping invocations.  The effect runs again when selectedPeriod,    *)
(* selectedIndicator, userRole or currentSBU change; nothing cancels the    *)
(* invocation that is still waiting for its queries, so two invocations     *)
(* run their steps interleaved and write the same state.  The store may     *)
(* change between their queries.                                           *)
(***************************************************************************)
\* small collections: two invocations multiply the interleavings
OverlapInputs ==
    SeqsUpTo(ReportRecords({"A"}, {<<80>>}, {"X"}, {"completed"}, {Jan2024}),
             MaxLenOverlap)

InitOverlap == reportsTable \in OverlapInputs /\ InitAdmin /\ InitView

\* another session writes to the table 'reports'
ReportsTableChanges ==
    /\ reportsTable' \in OverlapInputs \ {reportsTable}
    /\ UNCHANGED <<userRole, authUser, queryReports, pc, loading, aggregates,
                   liveData, errorToast, aggregated, latest>>
    /\ UNCHANGED <<overlapping, management, dashboard, page>>

\* the effect runs again while an invocation is in flight
fetchAnalyticsDataAgain ==
    /\ pc # "idle"
    /\ pc2 = "idle"
    /\ ~InBuilders(pc)
    /\ pc2' = "reports_query"
    /\ loading' = TRUE
    /\ errorToast' = FALSE
    /\ latest' = 2
    /\ UNCHANGED <<queryReports, pc, queryReports2, aggregates, liveData,
                   aggregated>>
    /\ UNCHANGED <<store, page, management, dashboard>>

CatchFinallyAgain ==
    /\ errorToast' = TRUE
    /\ loading' = FALSE
    /\ pc2' = "idle"
    /\ UNCHANGED <<queryReports, pc, queryReports2, aggregates, liveData,
                   aggregated, latest>>
    /\ UNCHANGED <<store, page, management, dashboard>>

ReportsQueryReturnsAgain ==
    /\ pc2 = "reports_query"
    /\ ~InBuilders(pc)
    /\ \/ CatchFinallyAgain
       \/ /\ queryReports2' = selectReports(reportsTable)
          /\ pc2' = "profiles_query"
          /\ UNCHANGED <<queryReports, pc, loading, aggregates, liveData,
                         errorToast, aggregated, latest>>
          /\ UNCHANGED <<store, page, management, dashboard>>

ProfilesQueryReturnsAgain ==
    /\ pc2 = "profiles_query"
    /\ ~InBuilders(pc)
    /\ \/ CatchFinallyAgain
       \/ /\ liveData' = computeLiveData(queryReports2, selectSbuUsers(profilesTable))
          /\ pc2' = "leaderboard"
          /\ UNCHANGED <<queryReports, pc, queryReports2, loading, aggregates,
                         errorToast, aggregated, latest>>
          /\ UNCHANGED <<store, page, management, dashboard>>

GenerateLeaderboardAgain ==
    /\ pc2 = "leaderboard"
    /\ ~InBuilders(pc)
    /\ \E random \in [1..Len(sbuScores(queryReports2).keys) -> -MaxDraw..MaxDraw] :
          leaderboardData' = generateLeaderboardData(queryReports2, random)
    /\ pc2' = "performance"
    /\ UNCHANGED <<queryReports, pc, queryReports2, loading,
                   performanceComparisonData, trendData, activityCompositionData,
                   liveData, errorToast, aggregated, latest>>
    /\ UNCHANGED <<store, page, management, dashboard>>

GeneratePerformanceAgain ==
    /\ pc2 = "performance"
    /\ ~InBuilders(pc)
    /\ performanceComparisonData' = generatePerformanceData(queryReports2)
    /\ pc2' = "trend"
    /\ UNCHANGED <<queryReports, pc, queryReports2, loading, leaderboardData,
                   trendData, activityCompositionData, liveData, errorToast,
                   aggregated, latest>>
    /\ UNCHANGED <<store, page, management, dashboard>>

GenerateTrendAgain ==
    /\ pc2 = "trend"
    /\ ~InBuilders(pc)
    /\ trendData' = generateTrendData(queryReports2)
    /\ pc2' = "composition"
    /\ UNCHANGED <<queryReports, pc, queryReports2, loading, leaderboardData,
                   performanceComparisonData, activityCompositionData, liveData,
                   errorToast, aggregated, latest>>
    /\ UNCHANGED <<store, page, management, dashboard>>

GenerateCompositionAgain ==
    /\ pc2 = "composition"
    /\ ~InBuilders(pc)
    /\ activityCompositionData' = generateCompositionData(queryReports2)
    /\ pc2' = "finally"
    /\ aggregated' = TRUE
    /\ UNCHANGED <<queryReports, pc, queryReports2, loading, leaderboardData,
                   performanceComparisonData, trendData, liveData, errorToast,
                   latest>>
    /\ UNCHANGED <<store, page, management, dashboard>>

FinallyAgain ==
    /\ pc2 = "finally"
    /\ ~InBuilders(pc)
    /\ loading' = FALSE
    /\ pc2' = "idle"
    /\ UNCHANGED <<queryReports, pc, queryReports2, aggregates, liveData,
                   errorToast, aggregated, latest>>
    /\ UNCHANGED <<store, page, management, dashboard>>

NextAgain ==
    \/ fetchAnalyticsDataAgain
    \/ ReportsQueryReturnsAgain
    \/ ProfilesQueryReturnsAgain
    \/ GenerateLeaderboardAgain
    \/ GeneratePerformanceAgain
    \/ GenerateTrendAgain
    \/ GenerateCompositionAgain
    \/ FinallyAgain

NextOverlap ==
    \/ Next
    \/ NextAgain
    \/ ReportsTableChanges

SpecOverlap == InitOverlap /\ [][NextOverlap]_vars

(***************************************************************************)
(* The simulated live update.  The effect of lines 39-53 has no            *)
(* dependencies: it runs once, with the effects of the mount, right after  *)
(* the fetch effect has sent the reports query, and reads the liveData of  *)
(* the first render.  Time passes in periods of 30 seconds; a period ends  *)
(* with the callback of the interval when the effect has set one.          *)
(***************************************************************************)
\* collections of a view that is mounted and left running
LiveInputs ==
    SeqsUpTo(ReportRecords({"A"}, {NoScore, <<80>>}, {"X"},
                           {"approved", "rejected"}, {Jan2024}), MaxLenLive)

InitLive == reportsTable \in LiveInputs /\ InitAdmin /\ InitView

\* q + d / unit
AddTo(q, d, unit) == Fraction(q.num * unit + d * q.den, q.den * unit)
\* Math.min(100, q)
MathMin100(q) == IF q.num >= 100 * q.den THEN Fraction(100, 1) ELSE q
\* Math.max(0, q)
MathMax0(q) == IF q.num <= 0 THEN Fraction(0, 1) ELSE q

\* the updater of setLiveData in the interval callback; more is
\* Math.floor(Math.random() * 3), sbu is Math.floor(Math.random() * 2), and
\* (Math.random() - 0.5) is rate / (2 * (MaxDraw + 1)) and
\* score / (2 * (MaxDraw + 1))
liveUpdate(prev, more, rate, score, sbu) ==
    [totalReports |-> prev.totalReports + more,
     approvalRate |-> MathMin100(AddTo(prev.approvalRate, rate, 4 * (MaxDraw + 1))),
     averageScore |-> MathMax0(AddTo(prev.averageScore, score, MaxDraw + 1)),
     activeSBU |-> IF prev.activeSBU + sbu > 20 THEN 20 ELSE prev.activeSBU + sbu]

\* the effects of the mount, in the order of the source: fetchAnalyticsData()
\* up to its first await, then the live-update effect
MountEffects ==
    /\ intervalId = "unset"
    /\ pc = "idle"
    /\ pc' = "reports_query"
    /\ loading' = TRUE
    /\ errorToast' = FALSE
    /\ latest' = 1
    /\ intervalId' = IF liveData.totalReports = 0 THEN "none" ELSE "timer"
    /\ UNCHANGED <<queryReports, aggregates, liveData, aggregated, elapsed>>
    /\ UNCHANGED <<store, overlapping, management, dashboard, activity, selection,
                   header>>

\* selectedPeriod, selectedIndicator, userRole or currentSBU change: the fetch
\* effect runs again, the live-update effect does not
DependenciesChange ==
    /\ intervalId # "unset"
    /\ fetchAnalyticsData

\* 30 seconds pass; the interval, if there is one, calls its callback
ThirtySecondsPass ==
    /\ intervalId # "unset"
    /\ ~InBuilders(pc)
    /\ elapsed < MaxTicks
    /\ elapsed' = elapsed + 1
    /\ IF intervalId = "timer"
       THEN \E more \in 0..2, sbu \in 0..1, rate, score \in -MaxDraw..MaxDraw :
               liveData' = liveUpdate(liveData, more, rate, score, sbu)
       ELSE UNCHANGED liveData
    /\ UNCHANGED <<queryReports, pc, loading, aggregates, errorToast, aggregated,
                   latest, intervalId>>
    /\ UNCHANGED <<store, overlapping, management, dashboard, activity, selection,
                   header>>

NextLive ==
    \/ MountEffects
    \/ DependenciesChange
    \/ ReportsQueryReturns
    \/ ProfilesQueryReturns
    \/ GenerateLeaderboard
    \/ GeneratePerformance
    \/ GenerateTrend
    \/ GenerateComposition
    \/ Finally
    \/ ThirtySecondsPass

SpecLive == InitLive /\ [][NextLive]_vars
(***************************************************************************)
(* The callers of the report store.  A row of the table 'reports' belongs  *)
(* to the user who submitted it (user_id).  The reports list               *)
(* (ReportsManagement.tsx) and the dashboard statistics                     *)
(* (DashboardStats.tsx) read the same table as the analytics view.  Of the  *)
(* list's rows and of the statistics' cards the model keeps the fields      *)
(* that come from the report records; file names, people's names,           *)
(* timestamps, icons and the mock trends are left out.                      *)
(***************************************************************************)
\* profiles!reports_user_id_fkey(sbu_name) of the submitting user
sbuNameOf(user_id) == IF user_id = "u1" THEN "A" ELSE "B"

\* tables whose rows differ in owner and status; id is the row's position
ScopeInputs ==
    {[i \in 1..Len(t) |->
         [id |-> i, user_id |-> t[i].user_id, sbu_name |-> sbuNameOf(t[i].user_id),
          file_name |-> <<"a">>, full_name |-> <<"b">>,
          calculated_score |-> <<80>>, indicator_type |-> "X",
          status |-> t[i].status, created_at |-> Jan2024]] :
       t \in SeqsUpTo([user_id : {"u1", "u2"},
                       status : {"approved", "pending_approval"}], MaxLenScope)}

\* either role is signed in, or the session has no user
InitScope ==
    /\ reportsTable \in ScopeInputs
    /\ userRole \in {"admin", "sbu"}
    /\ authUser \in {Absent, "u1"}
    /\ InitView

\* fetchReports: the query, with .eq('user_id', user.id) for the role sbu
selectManagedReports(table, role, user) ==
    OrderByCreatedAtDescending(
        IF role = "sbu" THEN SelectSeq(table, LAMBDA r : r.user_id = user)
        ELSE table)

\* (data || []).map(report => ({ id, fileName, submittedBy, sbu, status,
\* indicatorType, calculatedScore, ... })); fileName and submittedBy are
\* lists of characters, 'Unknown User' is <<"U">>
transformedReports(data) ==
    [i \in 1..Len(data) |->
        [id |-> data[i].id,
         fileName |-> data[i].file_name,
         submittedBy |-> IF data[i].full_name = << >> THEN <<"U">>
                         ELSE data[i].full_name,
         sbu |-> IF NameFalsy(data[i].sbu_name) THEN "Unknown SBU"
                 ELSE data[i].sbu_name,
         status |-> data[i].status,
         indicatorType |-> data[i].indicator_type,
         calculatedScore |-> data[i].calculated_score]]

\* useEffect(() => { fetchReports() }, [...]): try { setLoading(true); getUser()
fetchReports ==
    /\ managementPc = "idle"
    /\ managementPc' = "getUser"
    /\ managementLoading' = TRUE
    /\ managementErrorToast' = FALSE
    /\ UNCHANGED <<managementReports, analytics, store, page, overlapping, dashboard>>

\* getUser answers: if (!user) return; the finally block still runs
FetchReportsUserReturns ==
    /\ managementPc = "getUser"
    /\ IF authUser = Absent
       THEN /\ managementLoading' = FALSE
            /\ managementPc' = "idle"
       ELSE /\ managementPc' = "query"
            /\ UNCHANGED managementLoading
    /\ UNCHANGED <<managementReports, managementErrorToast, analytics, store, page,
                   overlapping, dashboard>>

\* the query answers: if (error) throw error; setReports(transformedReports);
\* catch { toast } finally { setLoading(false) }
FetchReportsQueryReturns ==
    /\ managementPc = "query"
    /\ \/ /\ managementErrorToast' = TRUE
          /\ UNCHANGED managementReports
       \/ /\ managementReports' =
                transformedReports(selectManagedReports(reportsTable, userRole, authUser))
          /\ UNCHANGED managementErrorToast
    /\ managementLoading' = FALSE
    /\ managementPc' = "idle"
    /\ UNCHANGED <<analytics, store, page, overlapping, dashboard>>

\* reports.filter(r => statuses.includes(r.status)).length
CountStatus(reports, statuses) ==
    Len(SelectSeq(reports, LAMBDA r : r.status \in statuses))

\* the mean of the present scores as toFixed(1) prints it, in tenths
ScoreCard(reports) ==
    LET scored == completedWithScores(reports)
    IN  IF Len(scored) > 0
        THEN ToFixed1(SumSeq([i \in 1..Len(scored) |-> scored[i].calculated_score[1]]),
                      Len(scored))
        ELSE 0

\* fetchSBUStats: .eq('user_id', user.id)
selectOwnReports(table, user) == SelectSeq(table, LAMBDA r : r.user_id = user)

\* fetchSBUStats: the cards handed to setStats
sbuStats(reports) ==
    <<[title |-> "Laporan Saya", value |-> Len(reports)],
      [title |-> "Disetujui", value |-> CountStatus(reports, {"approved", "completed"})],
      [title |-> "Dalam Proses",
       value |-> CountStatus(reports, {"pending_approval", "processing", "queued"})],
      [title |-> "Skor KPI", value |-> ScoreCard(reports)]>>

\* fetchAdminStats: supabase.from('profiles').select('id').eq('role', 'sbu')
selectSbuProfiles(profiles) == SelectSeq(profiles, LAMBDA u : u.role = "sbu")

\* fetchAdminStats: the cards handed to setStats
adminStats(reports, sbuUsers) ==
    <<[title |-> "Total Laporan", value |-> Len(reports)],
      [title |-> "Menunggu Approval", value |-> CountStatus(reports, {"pending_approval"})],
      [title |-> "Selesai Diproses", value |-> CountStatus(reports, {"completed"})],
      [title |-> "Ditolak", value |-> CountStatus(reports, {"rejected", "system_rejected"})],
      [title |-> "SBU Aktif", value |-> Len(sbuUsers)],
      [title |-> "Skor Rata-rata", value |-> ScoreCard(reports)]>>

\* useEffect(() => { fetchStats() }, [...]): try { setLoading(true);
\* fetchAdminStats() or fetchSBUStats() asks for the user
fetchStats ==
    /\ statsPc = "idle"
    /\ statsPc' = "getUser"
    /\ statsLoading' = TRUE
    /\ statsErrorToast' = FALSE
    /\ UNCHANGED <<stats, analytics, store, page, overlapping, management>>

\* catch { toast } finally { setLoading(false) } of fetchStats
FetchStatsCatchFinally ==
    /\ statsErrorToast' = TRUE
    /\ statsLoading' = FALSE
    /\ statsPc' = "idle"
    /\ UNCHANGED <<stats, analytics, store, page, overlapping, management>>

\* getUser answers: if (!user) return
FetchStatsUserReturns ==
    /\ statsPc = "getUser"
    /\ IF authUser = Absent
       THEN /\ statsLoading' = FALSE
            /\ statsPc' = "idle"
       ELSE /\ statsPc' = "reports_query"
            /\ UNCHANGED statsLoading
    /\ UNCHANGED <<stats, statsErrorToast, analytics, store, page, overlapping,
                   management>>

\* the reports query answers: fetchSBUStats stores its cards, fetchAdminStats
\* goes on to the profiles query
FetchStatsReportsReturns ==
    /\ statsPc = "reports_query"
    /\ \/ FetchStatsCatchFinally
       \/ /\ userRole = "admin"
          /\ statsPc' = "profiles_query"
          /\ UNCHANGED <<stats, statsLoading, statsErrorToast, analytics, store, page,
                         overlapping, management>>
       \/ /\ userRole # "admin"
          /\ stats' = sbuStats(selectOwnReports(reportsTable, authUser))
          /\ statsLoading' = FALSE
          /\ statsPc' = "idle"
          /\ UNCHANGED <<statsErrorToast, analytics, store, page, overlapping,
                         management>>

\* fetchAdminStats: the profiles query answers
FetchStatsProfilesReturns ==
    /\ statsPc = "profiles_query"
    /\ \/ FetchStatsCatchFinally
       \/ /\ stats' = adminStats(reportsTable, selectSbuProfiles(profilesTable))
          /\ statsLoading' = FALSE
          /\ statsPc' = "idle"
          /\ UNCHANGED <<statsErrorToast, analytics, store, page, overlapping,
                         management>>

NextScope ==
    \/ Next
    \/ fetchReports
    \/ FetchReportsUserReturns
    \/ FetchReportsQueryReturns
    \/ fetchStats
    \/ FetchStatsUserReturns
    \/ FetchStatsReportsReturns
    \/ FetchStatsProfilesReturns

SpecScope == InitScope /\ [][NextScope]_vars

(***************************************************************************)
(* The recent activity list (src/unnamed/part_000) reads the same table.   *)
(* The rows of the model carry one timestamp, created_at: a row counts as  *)
(* never updated, so that updated_at is created_at.                        *)
(***************************************************************************)
\* the empty table and a table of one row: the paths of the four fetches
\* depend on the caller and on the answers, not on the rows
TerminationInputs ==
    {<< >>,
     <<[id |-> 1, user_id |-> "u1", sbu_name |-> "A", file_name |-> <<"a">>,
        full_name |-> <<"b">>, calculated_score |-> NoScore,
        indicator_type |-> "X", status |-> "approved", created_at |-> Jan2024]>>}

InitTermination ==
    /\ reportsTable \in TerminationInputs
    /\ userRole \in {"admin", "sbu"}
    /\ authUser \in {Absent, "u1"}
    /\ InitView

\* .order('updated_at', { ascending: false }).limit(10)
selectRecentReports(table) ==
    LET ordered == OrderByCreatedAtDescending(table)
    IN  SubSeq(ordered, 1, IF Len(ordered) < 10 THEN Len(ordered) ELSE 10)

\* switch (report.status): the type and the status of the activity item
activityOf(status) ==
    CASE status \in {"queued", "processing"} -> [type |-> "upload", status |-> "processing"]
      [] status = "pending_approval" -> [type |-> "process", status |-> "pending"]
      [] status = "approved" -> [type |-> "approve", status |-> "success"]
      [] status = "completed" -> [type |-> "process", status |-> "success"]
      [] status \in {"rejected", "system_rejected"} -> [type |-> "reject", status |-> "error"]
      [] status = "failed" -> [type |-> "process", status |-> "error"]
      [] OTHER -> [type |-> "upload", status |-> "pending"]

\* (reports || []).map(report => ({ id, type, user, status, ... }))
reportActivities(reports) ==
    [i \in 1..Len(reports) |->
        [id |-> reports[i].id,
         type |-> activityOf(reports[i].status).type,
         user |-> IF NameFalsy(reports[i].sbu_name) THEN "Unknown SBU"
                  ELSE reports[i].sbu_name,
         status |-> activityOf(reports[i].status).status]]

\* useEffect(() => { fetchRecentActivity() }, [...]): try { getUser()
fetchRecentActivity ==
    /\ activityPc = "idle"
    /\ activityPc' = "getUser"
    /\ activityErrorToast' = FALSE
    /\ UNCHANGED <<activities, activityLoading>>
    /\ UNCHANGED <<analytics, store, overlapping, management, dashboard, live,
                   selection, header>>

\* variant: if (!user) return stands before the try block
FetchActivityUserReturnsBeforeTry ==
    /\ activityPc = "getUser"
    /\ IF authUser = Absent
       THEN /\ activityPc' = "idle"
       ELSE /\ activityPc' = "query"
    /\ UNCHANGED <<activities, activityLoading, activityErrorToast>>
    /\ UNCHANGED <<analytics, store, overlapping, management, dashboard, live,
                   selection, header>>

\* getUser answers: if (!user) return; the finally block still runs
FetchActivityUserReturns ==
    /\ activityPc = "getUser"
    /\ IF authUser = Absent
       THEN /\ activityLoading' = FALSE
            /\ activityPc' = "idle"
       ELSE /\ activityPc' = "query"
            /\ UNCHANGED activityLoading
    /\ UNCHANGED <<activities, activityErrorToast>>
    /\ UNCHANGED <<analytics, store, overlapping, management, dashboard, live,
                   selection, header>>

\* the query answers: if (reportsError) throw reportsError;
\* setActivities(reportActivities); catch { toast } finally { setLoading(false) }
FetchActivityQueryReturns ==
    /\ activityPc = "query"
    /\ \/ /\ activityErrorToast' = TRUE
          /\ UNCHANGED activities
       \/ /\ activities' = reportActivities(selectRecentReports(reportsTable))
          /\ UNCHANGED activityErrorToast
    /\ activityLoading' = FALSE
    /\ activityPc' = "idle"
    /\ UNCHANGED <<analytics, store, overlapping, management, dashboard, live,
                   selection, header>>

NextTermination ==
    \/ NextScope
    \/ fetchRecentActivity
    \/ FetchActivityUserReturns
    \/ FetchActivityQueryReturns

SpecTermination == InitTermination /\ [][NextTermination]_vars

\* every query that was sent is answered, and an invocation that is past an
\* await goes on
FairTermination ==
    /\ SpecTermination
    /\ WF_vars(ReportsQueryReturns) /\ WF_vars(ProfilesQueryReturns)
    /\ WF_vars(GenerateLeaderboard) /\ WF_vars(GeneratePerformance)
    /\ WF_vars(GenerateTrend) /\ WF_vars(GenerateComposition) /\ WF_vars(Finally)
    /\ WF_vars(FetchReportsUserReturns) /\ WF_vars(FetchReportsQueryReturns)
    /\ WF_vars(FetchStatsUserReturns) /\ WF_vars(FetchStatsReportsReturns)
    /\ WF_vars(FetchStatsProfilesReturns)
    /\ WF_vars(FetchActivityUserReturns) /\ WF_vars(FetchActivityQueryReturns)
(***************************************************************************)
(* The reports list of an administrator: filters, selection and the        *)
(* approve and reject buttons of the rows (ReportsManagement.tsx).  Texts  *)
(* that are searched are lists of characters over a, A, b, B.              *)
(***************************************************************************)
\* tables whose rows differ in file name and status
ManagementInputs ==
    {[i \in 1..Len(t) |->
         [id |-> i, user_id |-> "u1", sbu_name |-> "A",
          file_name |-> t[i].file_name, full_name |-> <<"b">>,
          calculated_score |-> <<80>>, indicator_type |-> "Website",
          status |-> t[i].status, created_at |-> Jan2024]] :
       t \in SeqsUpTo([file_name : {<<"a">>, <<"B">>},
                       status : {"pending", "approved"}], MaxLenManagement)}

InitManagement == reportsTable \in ManagementInputs /\ InitAdmin /\ InitView

\* String.prototype.toLowerCase
toLowerCase(s) ==
    [i \in DOMAIN s |-> IF s[i] = "A" THEN "a" ELSE IF s[i] = "B" THEN "b" ELSE s[i]]
\* String.prototype.includes
includes(s, t) ==
    \E k \in 0..(Len(s) - Len(t)) : SubSeq(s, k + 1, k + Len(t)) = t

\* const filteredReports = reports.filter(report => {...})
filteredReports(reports, search, status, indicator) ==
    SelectSeq(reports, LAMBDA report :
        /\ ~(/\ search # << >>
             /\ ~includes(toLowerCase(report.fileName), toLowerCase(search))
             /\ ~includes(toLowerCase(report.submittedBy), toLowerCase(search)))
        /\ ~(status # "all" /\ report.status # status)
        /\ ~(indicator # "all" /\ report.indicatorType # indicator))

\* the list that is rendered
shownReports == filteredReports(managementReports, searchTerm, statusFilter,
                                indicatorFilter)
\* filteredReports.map(report => report.id)
idsOf(reports) == [i \in 1..Len(reports) |-> reports[i].id]

\* checked={filteredReports.length > 0 &&
\*          selectedReports.length === filteredReports.length}
selectAllChecked ==
    Len(shownReports) > 0 /\ Len(selectedReports) = Len(shownReports)

\* onChange={(e) => setSearchTerm(e.target.value)}
SetSearchTerm ==
    /\ \E value \in {<< >>, <<"A">>, <<"b">>} :
          /\ value # searchTerm
          /\ searchTerm' = value
    /\ UNCHANGED <<statusFilter, indicatorFilter, selectedReports, managementToasts>>
    /\ UNCHANGED <<analytics, store, overlapping, management, dashboard, live,
                   activity, header>>

\* onValueChange={setStatusFilter}
SetStatusFilter ==
    /\ \E value \in {"all", "pending"} :
          /\ value # statusFilter
          /\ statusFilter' = value
    /\ UNCHANGED <<searchTerm, indicatorFilter, selectedReports, managementToasts>>
    /\ UNCHANGED <<analytics, store, overlapping, management, dashboard, live,
                   activity, header>>

\* onValueChange={setIndicatorFilter}
SetIndicatorFilter ==
    /\ \E value \in {"all", "Media Sosial"} :
          /\ value # indicatorFilter
          /\ indicatorFilter' = value
    /\ UNCHANGED <<searchTerm, statusFilter, selectedReports, managementToasts>>
    /\ UNCHANGED <<analytics, store, overlapping, management, dashboard, live,
                   activity, header>>

\* the 'Pilih Semua' checkbox of an administrator is clicked:
\* handleSelectAll(checked), checked being the opposite of what it shows
handleSelectAll ==
    /\ userRole = "admin"
    /\ LET checked == ~selectAllChecked
       IN  selectedReports' = IF checked THEN idsOf(shownReports) ELSE << >>
    /\ UNCHANGED <<filters, managementToasts>>
    /\ UNCHANGED <<analytics, store, overlapping, management, dashboard, live,
                   activity, header>>

\* the checkbox of a row is clicked: handleSelectReport(report.id, checked)
handleSelectReport ==
    /\ userRole = "admin"
    /\ ~managementLoading
    /\ \E r \in DOMAIN shownReports :
          LET reportId == shownReports[r].id
              checked == reportId \notin Range(selectedReports)
          IN  selectedReports' =
                  IF checked THEN Append(selectedReports, reportId)
                  ELSE SelectSeq(selectedReports, LAMBDA id : id # reportId)
    /\ UNCHANGED <<filters, managementToasts>>
    /\ UNCHANGED <<analytics, store, overlapping, management, dashboard, live,
                   activity, header>>

\* variant: approving sets the status of the report in the list
handleApproveReportStoring ==
    /\ userRole = "admin"
    /\ ~managementLoading
    /\ Len(managementToasts) < MaxToasts
    /\ \E r \in DOMAIN shownReports :
          /\ shownReports[r].status = "pending"
          /\ managementReports' =
                [k \in DOMAIN managementReports |->
                    IF managementReports[k].id = shownReports[r].id
                    THEN [managementReports[k] EXCEPT !.status = "approved"]
                    ELSE managementReports[k]]
    /\ managementToasts' = Append(managementToasts, "Laporan Disetujui")
    /\ UNCHANGED <<filters, selectedReports, managementLoading, managementPc,
                   managementErrorToast>>
    /\ UNCHANGED <<analytics, store, overlapping, dashboard, live, activity,
                   header>>

\* the 'Setujui' button of a pending row: handleApproveReport(report.id)
handleApproveReport ==
    /\ userRole = "admin"
    /\ ~managementLoading
    /\ Len(managementToasts) < MaxToasts
    /\ \E r \in DOMAIN shownReports : shownReports[r].status = "pending"
    /\ managementToasts' = Append(managementToasts, "Laporan Disetujui")
    /\ UNCHANGED <<filters, selectedReports>>
    /\ UNCHANGED <<analytics, store, overlapping, management, dashboard, live,
                   activity, header>>

\* the 'Tolak' button of a pending row: handleRejectReport(report.id, "")
handleRejectReport ==
    /\ userRole = "admin"
    /\ ~managementLoading
    /\ Len(managementToasts) < MaxToasts
    /\ \E r \in DOMAIN shownReports : shownReports[r].status = "pending"
    /\ managementToasts' = Append(managementToasts, "Laporan Ditolak")
    /\ UNCHANGED <<filters, selectedReports>>
    /\ UNCHANGED <<analytics, store, overlapping, management, dashboard, live,
                   activity, header>>

NextManagement ==
    \/ fetchReports
    \/ FetchReportsUserReturns
    \/ FetchReportsQueryReturns
    \/ SetSearchTerm
    \/ SetStatusFilter
    \/ SetIndicatorFilter
    \/ handleSelectAll
    \/ handleSelectReport
    \/ handleApproveReport
    \/ handleRejectReport

SpecManagement == InitManagement /\ [][NextManagement]_vars
(***************************************************************************)
(* The Header (Header.tsx).  Every mount of a Header adds an entry to      *)
(* headers.  The effect of the mount calls fetchNotificationCount(), then  *)
(* evaluates supabase.auth.getUser().then(callback), and then destructures *)
(* { data: { user } } from the promise that then() returned: a promise has *)
(* no property data, so the destructuring throws a TypeError out of the    *)
(* effect, and React removes the component that threw (through the nearest *)
(* error boundary, or with the whole root).  The callback is attached by   *)
(* then and runs all the same.                                             *)
(***************************************************************************)
InitHeader ==
    /\ reportsTable = << >>
    /\ userRole = "admin"
    /\ authUser \in {Absent, "u1"}
    /\ InitView

\* the Header is rendered: useState(propNotificationCount || 0)
MountHeader ==
    /\ Len(headers) < MaxMounts
    /\ headers' = Append(headers,
                         [mounted |-> TRUE, effect |-> "pending",
                          subscription |-> "none", fetchPc |-> "idle",
                          eventFetches |-> 0, notificationCount |-> 0])
    /\ UNCHANGED unread
    /\ UNCHANGED <<analytics, store, overlapping, management, dashboard, live,
                   activity, selection>>

\* useEffect(() => {...}, []) of a Header: fetchNotificationCount() up to its
\* first await, getUser().then(...), and the TypeError of the destructuring
HeaderEffect ==
    /\ \E h \in DOMAIN headers :
          /\ headers[h].effect = "pending"
          /\ headers' = [headers EXCEPT ![h] =
                            [@ EXCEPT !.effect = "thrown",
                                      !.fetchPc = "getUser",
                                      !.subscription = "getUser",
                                      !.mounted = FALSE]]
    /\ UNCHANGED unread
    /\ UNCHANGED <<analytics, store, overlapping, management, dashboard, live,
                   activity, selection>>

\* the callback of then: if (data.user) { channel(...).on(...).subscribe();
\* return () => { supabase.removeChannel(channel) } }; what the callback
\* returns becomes the value of a promise that nobody reads
SubscriptionUserReturns ==
    /\ \E h \in DOMAIN headers :
          /\ headers[h].subscription = "getUser"
          /\ headers' = [headers EXCEPT ![h].subscription =
                            IF authUser # Absent THEN "subscribed" ELSE "none"]
    /\ UNCHANGED unread
    /\ UNCHANGED <<analytics, store, overlapping, management, dashboard, live,
                   activity, selection>>

\* a row of 'notifications' of the user changes; the channel of a Header gets
\* the postgres_changes event and its callback calls fetchNotificationCount()
NotificationEvent ==
    /\ \E count \in 0..MaxUnread : unread' = count
    /\ \E h \in DOMAIN headers :
          /\ headers[h].subscription = "subscribed"
          /\ headers[h].fetchPc = "idle"
          /\ headers[h].eventFetches < MaxEvents
          /\ headers' = [headers EXCEPT ![h] =
                            [@ EXCEPT !.fetchPc = "getUser",
                                      !.eventFetches = @ + 1]]
    /\ UNCHANGED <<analytics, store, overlapping, management, dashboard, live,
                   activity, selection>>

\* fetchNotificationCount: getUser answers: if (!user) return
FetchCountUserReturns ==
    /\ \E h \in DOMAIN headers :
          /\ headers[h].fetchPc = "getUser"
          /\ headers' = [headers EXCEPT ![h].fetchPc =
                            IF authUser = Absent THEN "idle" ELSE "query"]
    /\ UNCHANGED unread
    /\ UNCHANGED <<analytics, store, overlapping, management, dashboard, live,
                   activity, selection>>

\* fetchNotificationCount: the query answers: if (error) { log; return };
\* setNotificationCount(data?.length || 0), which React drops for a
\* component that is not mounted
FetchCountQueryReturns ==
    /\ \E h \in DOMAIN headers :
          /\ headers[h].fetchPc = "query"
          /\ \/ headers' = [headers EXCEPT ![h].fetchPc = "idle"]
             \/ headers' = [headers EXCEPT ![h] =
                               [@ EXCEPT !.fetchPc = "idle",
                                         !.notificationCount =
                                             IF headers[h].mounted THEN unread
                                             ELSE @]]
    /\ UNCHANGED unread
    /\ UNCHANGED <<analytics, store, overlapping, management, dashboard, live,
                   activity, selection>>

NextHeader ==
    \/ MountHeader
    \/ HeaderEffect
    \/ SubscriptionUserReturns
    \/ NotificationEvent
    \/ FetchCountUserReturns
    \/ FetchCountQueryReturns

SpecHeader == InitHeader /\ [][NextHeader]_vars
(***************************************************************************)
(* The notions the properties are stated in, defined on the collection     *)
(* itself.                                                                 *)
(***************************************************************************)
\* the builder has stored its result for queryReports
LeaderboardBuilt == aggregated \/ pc \in {"performance", "trend", "composition", "finally"}
PerformanceBuilt == aggregated \/ pc \in {"trend", "composition", "finally"}
TrendBuilt == aggregated \/ pc \in {"composition", "finally"}
CompositionBuilt == aggregated \/ pc = "finally"

\* positions of the records of unit u / of indicator ind whose score is present
ScoredOfUnit(rs, u) ==
    {i \in 1..Len(rs) : rs[i].sbu_name = u /\ rs[i].calculated_score # NoScore}
ScoredOfIndicator(rs, ind) ==
    {i \in 1..Len(rs) : rs[i].indicator_type = ind /\ rs[i].calculated_score # NoScore}
\* the units that have a name and at least one record with a present score
ScoredUnits(rs) ==
    {rs[i].sbu_name : i \in {j \in 1..Len(rs) :
        rs[j].sbu_name # Absent /\ rs[j].calculated_score # NoScore}}

RECURSIVE SumScores(_, _)
\* sum of the scores at the positions I
SumScores(rs, I) ==
    IF I = {} THEN 0
    ELSE LET i == CHOOSE x \in I : TRUE
         IN  rs[i].calculated_score[1] + SumScores(rs, I \ {i})

RECURSIVE SumTotals(_)
SumTotals(trend) ==
    IF trend = << >> THEN 0 ELSE SumTotals(Front(trend)) + Last(trend).total_laporan

RowsOf(rows) == {rows[i] : i \in 1..Len(rows)}
\* positions of the records that fall in the bucket of month label m
InMonth(rs, m) == {i \in 1..Len(rs) : monthKey(rs[i].created_at) = m}
FirstInMonth(rs, m) == CHOOSE i \in InMonth(rs, m) : \A j \in InMonth(rs, m) : i <= j
\* position of the first record of unit u that the leaderboard groups
FirstGrouped(rs, u) ==
    CHOOSE i \in 1..Len(rs) :
        /\ rs[i].sbu_name = u /\ ~ScoreFalsy(rs[i].calculated_score)
        /\ \A j \in 1..(i - 1) :
               ~(rs[j].sbu_name = u /\ ~ScoreFalsy(rs[j].calculated_score))

\* the totalReports computed for unit u (the stored rows do not repeat it)
TotalReportsOf(rs, u) == Len(ScoresOf(sbuScores(rs), u))

RECURSIVE SumTotalReports(_, _)
SumTotalReports(rs, lb) ==
    IF lb = << >> THEN 0
    ELSE SumTotalReports(rs, Front(lb)) + TotalReportsOf(rs, Last(lb).sbu)

\* the leaderboard without its change field
StripChange(lb) ==
    [i \in 1..Len(lb) |-> [rank |-> lb[i].rank, sbu |-> lb[i].sbu, score |-> lb[i].score]]

(***************************************************************************)
(* C1.  Every comparison row's rata_rata is the (rounded) mean of all the  *)
(* records of its indicator whose score is present, weighted by record     *)
(* count: unit A with one record of 100 and unit B with three records of   *)
(* 0 give 25.                                                              *)
(***************************************************************************)
C1_OverallMeanOfPresentScores ==
    PerformanceBuilt =>
        \A row \in RowsOf(performanceComparisonData) :
            LET I == ScoredOfIndicator(queryReports, row.indicator)
            IN  I # {} /\ row.rata_rata = MathRound(SumScores(queryReports, I), Cardinality(I))

(***************************************************************************)
(* C2.  A unit is on the leaderboard exactly when some record with that    *)
(* unit name has a present score, whatever the score's value.              *)
(***************************************************************************)
C2_LeaderboardUnitsAreScoredUnits ==
    LeaderboardBuilt =>
        {row.sbu : row \in RowsOf(leaderboardData)} = ScoredUnits(queryReports)

(***************************************************************************)
(* C3.  Every leaderboard row's score is the mean (to one decimal) of      *)
(* exactly the unit's records whose score is present.                      *)
(***************************************************************************)
C3_MeanOverPresentScores ==
    LeaderboardBuilt =>
        \A row \in RowsOf(leaderboardData) :
            LET I == ScoredOfUnit(queryReports, row.sbu)
            IN  I # {} /\ row.score = ToFixed1(SumScores(queryReports, I), Cardinality(I))

(***************************************************************************)
(* C4.  The ranks are 1, 2, ..., n in output order, n being the number of  *)
(* distinct units with at least one record whose score is present.         *)
(***************************************************************************)
C4_RanksContiguous ==
    LeaderboardBuilt =>
        /\ Len(leaderboardData) = Cardinality(ScoredUnits(queryReports))
        /\ \A i \in 1..Len(leaderboardData) : leaderboardData[i].rank = i

(***************************************************************************)
(* C5.  The rows are in descending order of mean score, and two units of   *)
(* equal mean score keep the order in which their names were first seen,   *)
(* whatever the names.  First seen is taken among the records the builder  *)
(* groups, so that the records it skips play no part in this property.     *)
(***************************************************************************)
C5_DescendingAndFirstSeenOnTies ==
    LeaderboardBuilt =>
        \A i, j \in 1..Len(leaderboardData) :
            i < j =>
                /\ leaderboardData[i].score >= leaderboardData[j].score
                /\ leaderboardData[i].score = leaderboardData[j].score =>
                       FirstGrouped(queryReports, leaderboardData[i].sbu)
                           < FirstGrouped(queryReports, leaderboardData[j].sbu)

(***************************************************************************)
(* C6.  No unit has two rows, the report count the builder attaches to a   *)
(* row's unit is the number of that unit's records whose score is present, *)
(* and the counts sum to at most the number of such records in the input.  *)
(***************************************************************************)
C6_ReportCounts ==
    LeaderboardBuilt =>
        /\ \A i, j \in 1..Len(leaderboardData) :
               leaderboardData[i].sbu = leaderboardData[j].sbu => i = j
        /\ \A row \in RowsOf(leaderboardData) :
               TotalReportsOf(queryReports, row.sbu)
                   = Cardinality(ScoredOfUnit(queryReports, row.sbu))
        /\ SumTotalReports(queryReports, leaderboardData)
               <= Cardinality({i \in 1..Len(queryReports) :
                                  queryReports[i].calculated_score # NoScore})

C8_TrendTotals ==
    TrendBuilt =>
        /\ SumTotals(trendData) = Len(queryReports)
        /\ \A b \in RowsOf(trendData) : b.approved + b.rejected <= b.total_laporan

\* two buckets over three records, one of them with a record that is neither
\* approved nor rejected
C8_Witness ==
    /\ TrendBuilt
    /\ Len(queryReports) = 3
    /\ Len(trendData) = 2
    /\ \E b \in RowsOf(trendData) : b.approved + b.rejected < b.total_laporan

(***************************************************************************)
(* C9.  In every bucket, approved counts the records with status approved  *)
(* or completed, rejected those with status rejected or system_rejected,   *)
(* and the records of any other status are in the total only.              *)
(***************************************************************************)
C9_TrendStatusCounts ==
    TrendBuilt =>
        \A b \in RowsOf(trendData) :
            LET I == InMonth(queryReports, b.month)
                A == {i \in I : queryReports[i].status \in {"approved", "completed"}}
                R == {i \in I : queryReports[i].status \in {"rejected", "system_rejected"}}
            IN  /\ b.approved = Cardinality(A)
                /\ b.rejected = Cardinality(R)
                /\ b.total_laporan = Cardinality(A) + Cardinality(R)
                                         + Cardinality(I \ (A \cup R))

\* one bucket that holds an approved, a system_rejected and a failed record
C9_Witness ==
    /\ TrendBuilt
    /\ \E b \in RowsOf(trendData) :
           /\ b.approved = 1 /\ b.rejected = 1 /\ b.total_laporan = 3
           /\ \E i \in InMonth(queryReports, b.month) :
                  queryReports[i].status = "system_rejected"
           /\ \E i \in InMonth(queryReports, b.month) :
                  queryReports[i].status = "failed"

(***************************************************************************)
(* C10.  The trend has exactly one entry per month key of the input, in    *)
(* the order of the first record of each month, not in calendar order.     *)
(***************************************************************************)
C10_TrendFirstSeenOrder ==
    TrendBuilt =>
        /\ {b.month : b \in RowsOf(trendData)}
               = {monthKey(queryReports[i].created_at) : i \in 1..Len(queryReports)}
        /\ \A i, j \in 1..Len(trendData) :
               i < j => FirstInMonth(queryReports, trendData[i].month)
                            < FirstInMonth(queryReports, trendData[j].month)

\* March was seen before January and is emitted before it
C10_Witness ==
    /\ TrendBuilt
    /\ Len(trendData) = 2
    /\ monthKey(queryReports[1].created_at) = monthKey(Mar2024)
    /\ trendData[1].month = monthKey(Mar2024)
    /\ trendData[2].month = monthKey(Jan2024)

\* C11: two records of the same calendar month fall in one trend bucket even
\* when their years differ: there is one bucket per month number found in the
\* collection, and it totals the records of that month of every year.
C11_OneBucketPerMonthOfAnyYear ==
    TrendBuilt =>
        LET months == {queryReports[i].created_at.month : i \in DOMAIN queryReports}
        IN  /\ Len(trendData) = Cardinality(months)
            /\ \A m \in months :
                  \E j \in DOMAIN trendData :
                     /\ trendData[j].month = MonthShort[m]
                     /\ trendData[j].total_laporan =
                           Cardinality({i \in DOMAIN queryReports :
                                          queryReports[i].created_at.month = m})

C11_Witness ==
    /\ TrendBuilt
    /\ Len(trendData) >= 2
    /\ \E i, j \in DOMAIN queryReports :
          /\ queryReports[i].created_at.month = queryReports[j].created_at.month
          /\ queryReports[i].created_at.year # queryReports[j].created_at.year

\* the slice a record is counted under
SliceOf(report) ==
    IF report.indicator_type = Absent THEN "Unknown" ELSE report.indicator_type
\* positions of the records counted under the slice called name
InSlice(rs, name) == {i \in 1..Len(rs) : SliceOf(rs[i]) = name}

RECURSIVE SumValues(_)
SumValues(composition) ==
    IF composition = << >> THEN 0
    ELSE SumValues(Front(composition)) + Last(composition).value

\* C12: the counts of the composition slices add up to the number of records
\* of the collection; every record is counted in the slice of its indicator,
\* a record without indicator in the slice 'Unknown', whatever its score and
\* its status are.
C12_CompositionCountsEveryRecord ==
    CompositionBuilt =>
        /\ SumValues(activityCompositionData) = Len(queryReports)
        /\ \A i \in DOMAIN queryReports :
              \E j \in DOMAIN activityCompositionData :
                 activityCompositionData[j].name = SliceOf(queryReports[i])
        /\ \A j \in DOMAIN activityCompositionData :
              activityCompositionData[j].value =
                  Cardinality(InSlice(queryReports, activityCompositionData[j].name))

C12_Witness ==
    /\ CompositionBuilt
    /\ Len(activityCompositionData) >= 2
    /\ \E j \in DOMAIN activityCompositionData :
          /\ activityCompositionData[j].name = "Unknown"
          /\ activityCompositionData[j].value >= 2
    /\ \E i, k \in DOMAIN queryReports :
          /\ queryReports[i].indicator_type = Absent
          /\ queryReports[k].indicator_type = Absent
          /\ queryReports[i].calculated_score # queryReports[k].calculated_score
          /\ queryReports[i].status # queryReports[k].status

\* C13: the composition slices come in the order in which their labels are
\* first seen in the collection, whatever the label strings are.
C13_CompositionFirstSeenOrder ==
    CompositionBuilt =>
        \A a, b \in DOMAIN activityCompositionData :
            a < b =>
                \E i \in InSlice(queryReports, activityCompositionData[a].name) :
                    \A k \in InSlice(queryReports, activityCompositionData[b].name) :
                        i < k

\* the metric is the number zero: no quotient by zero has been stored
IsZero(q) == q.num = 0 /\ q.den # 0
\* setLiveData has stored the metrics of queryReports
LiveDataStored ==
    aggregated \/ pc \in {"leaderboard", "performance", "trend", "composition", "finally"}

\* C14: on an empty collection every builder completes and stores an empty
\* list, and the headline metrics are the number zero: totalReports 0,
\* approvalRate 0, averageScore 0, none of them the result of dividing by zero.
C14_EmptyCollection ==
    reportsTable = << >> =>
        /\ LeaderboardBuilt => leaderboardData = << >>
        /\ PerformanceBuilt => performanceComparisonData = << >>
        /\ TrendBuilt => trendData = << >>
        /\ CompositionBuilt => activityCompositionData = << >>
        /\ LiveDataStored =>
              /\ liveData.totalReports = 0
              /\ IsZero(liveData.approvalRate)
              /\ IsZero(liveData.averageScore)

C14_Witness ==
    /\ reportsTable = << >>
    /\ queryReports = << >>
    /\ pc = "finally"
    /\ aggregated
    /\ ~errorToast

\* C15: when the reports query or the profiles query fails, the invocation
\* ends without running a builder and leaves what was stored before exactly
\* as it was: the four aggregates and liveData.
C15_FailureKeepsSnapshot ==
    [][(pc \in {"reports_query", "profiles_query"} /\ ~errorToast /\ errorToast')
          => (pc' = "idle" /\ UNCHANGED <<aggregates, liveData>>)]_vars

C15_Witness ==
    /\ errorToast
    /\ pc = "idle"
    /\ aggregated
    /\ leaderboardData # << >>
    /\ performanceComparisonData # << >>
    /\ trendData # << >>
    /\ activityCompositionData # << >>
    /\ liveData.totalReports > 0

\* the four aggregates are the ones the builders derive from collection c
SnapshotOf(c) ==
    /\ \E random \in [1..Len(sbuScores(c).keys) -> -MaxDraw..MaxDraw] :
          leaderboardData = generateLeaderboardData(c, random)
    /\ performanceComparisonData = generatePerformanceData(c)
    /\ trendData = generateTrendData(c)
    /\ activityCompositionData = generateCompositionData(c)

C17_LaterInvocationWins ==
    (pc = "idle" /\ pc2 = "idle" /\ latest # 0 /\ ~errorToast) =>
        SnapshotOf(IF latest = 1 THEN queryReports ELSE queryReports2)

\* C18: every comparison row presents the same set of unit columns, the
\* union of the units found in the collection (here: of the units that have
\* a column in some row); a unit without scored record of the row's
\* indicator is a column of the row whose cell is absent.
C18_SameColumnsInEveryRow ==
    PerformanceBuilt =>
        \A row \in RowsOf(performanceComparisonData) :
            DOMAIN row.cells =
                UNION {DOMAIN other.cells : other \in RowsOf(performanceComparisonData)}

\* positions of the records of indicator ind and unit u whose score is present
ScoredOfCell(rs, ind, u) ==
    {i \in 1..Len(rs) : /\ rs[i].indicator_type = ind
                        /\ rs[i].sbu_name = u
                        /\ rs[i].calculated_score # NoScore}

\* C19: the cell (indicator, unit) of the comparison is the (rounded) mean of
\* the present scores of the records of that indicator and that unit; there
\* is a cell exactly for the pairs that have such a record, and a row only
\* for an indicator that has a cell.
C19_CellIsMeanOfPresentScores ==
    PerformanceBuilt =>
        /\ \A row \in RowsOf(performanceComparisonData) :
              /\ DOMAIN row.cells # {}
              /\ \A u \in DOMAIN row.cells :
                    LET I == ScoredOfCell(queryReports, row.indicator, u)
                    IN  /\ I # {}
                        /\ row.cells[u] =
                              MathRound(SumScores(queryReports, I), Cardinality(I))
        /\ \A i \in DOMAIN queryReports :
              (/\ queryReports[i].indicator_type # Absent
               /\ queryReports[i].sbu_name # Absent
               /\ queryReports[i].calculated_score # NoScore)
              => \E row \in RowsOf(performanceComparisonData) :
                    /\ row.indicator = queryReports[i].indicator_type
                    /\ queryReports[i].sbu_name \in DOMAIN row.cells

\* the rows of the table that belong to the signed-in user
OwnRows == {i \in DOMAIN reportsTable : reportsTable[i].user_id = authUser}

\* C20: for a caller of the role sbu, every report record that feeds the
\* reports list, the dashboard statistics or the analytics aggregates belongs
\* to that caller.
C20_UnitCallerSeesOwnRecordsOnly ==
    (userRole = "sbu" /\ authUser # Absent) =>
        /\ \A k \in DOMAIN managementReports :
              managementReports[k].id \in OwnRows
        /\ stats # << >> => stats[1].value = Cardinality(OwnRows)
        /\ LiveDataStored =>
              \A i \in DOMAIN queryReports : queryReports[i].user_id = authUser


\* a record that misses its unit name, its indicator type or its score
Malformed(r) ==
    NameFalsy(r.sbu_name) \/ NameFalsy(r.indicator_type)
        \/ ~ScorePresent(r.calculated_score)
\* a record that misses what the leaderboard is keyed and computed by
MissesUnitOrScore(r) == NameFalsy(r.sbu_name) \/ ~ScorePresent(r.calculated_score)
\* the collection without its i-th record
Without(rs, i) == SubSeq(rs, 1, i - 1) \o SubSeq(rs, i + 1, Len(rs))
\* the leaderboard of a collection, without the change field
LeaderboardOf(rs) ==
    StripChange(generateLeaderboardData(rs,
                    [j \in 1..Len(sbuScores(rs).keys) |-> 0]))
\* the total of the bucket of month m in a trend, 0 when there is none
TrendTotalOf(trend, m) ==
    IF \E j \in DOMAIN trend : trend[j].month = m
    THEN (CHOOSE t \in RowsOf(trend) : t.month = m).total_laporan
    ELSE 0
\* the count of the slice called name in a composition, 0 when there is none
SliceValueOf(composition, name) ==
    IF \E j \in DOMAIN composition : composition[j].name = name
    THEN (CHOOSE c \in RowsOf(composition) : c.name = name).value
    ELSE 0
\* what the record at position i adds to the comparison, the trend and the
\* composition: nothing to the comparison, one to the total of its month and
\* nothing to the other months, one to its slice and nothing to the others
AddsOnlyToTrendAndComposition(i) ==
    LET others == Without(queryReports, i)
        r == queryReports[i]
    IN  /\ PerformanceBuilt =>
              performanceComparisonData = generatePerformanceData(others)
        /\ TrendBuilt =>
              \A m \in Range(MonthShort) :
                 TrendTotalOf(trendData, m) =
                     TrendTotalOf(generateTrendData(others), m)
                         + (IF m = monthKey(r.created_at) THEN 1 ELSE 0)
        /\ CompositionBuilt =>
              \A name \in {"Unknown", "X"} :
                 SliceValueOf(activityCompositionData, name) =
                     SliceValueOf(generateCompositionData(others), name)
                         + (IF name = SliceOf(r) THEN 1 ELSE 0)

(***************************************************************************)
(* C21, as claimed.  A record that misses any of unit name, indicator type *)
(* and score leaves the leaderboard rows (apart from change) and the       *)
(* comparison of the collection as they are without it, and adds one to    *)
(* the trend total of its month and one to the count of its composition    *)
(* slice.                                                                  *)
(***************************************************************************)
C21_MalformedAddsNothingToKeyedAggregates ==
    \A i \in DOMAIN queryReports :
       Malformed(queryReports[i]) =>
          /\ LeaderboardBuilt =>
                StripChange(leaderboardData) = LeaderboardOf(Without(queryReports, i))
          /\ AddsOnlyToTrendAndComposition(i)

(***************************************************************************)
(* C21, amended.  A record that misses its unit name or its score leaves   *)
(* the leaderboard rows (apart from change) as they are without it; a      *)
(* record that misses any of the three fields leaves the comparison as it  *)
(* is without it, and adds one to the trend total of its month and one to  *)
(* the count of its composition slice.  A record that misses only its      *)
(* indicator type is on the leaderboard like any other.                    *)
(***************************************************************************)
C21_MalformedExcludedWhereKeyMissing ==
    \A i \in DOMAIN queryReports :
       /\ (MissesUnitOrScore(queryReports[i]) /\ LeaderboardBuilt) =>
             StripChange(leaderboardData) = LeaderboardOf(Without(queryReports, i))
       /\ Malformed(queryReports[i]) => AddsOnlyToTrendAndComposition(i)

C21_Witness ==
    /\ CompositionBuilt
    /\ Len(leaderboardData) = 1
    /\ Len(performanceComparisonData) = 1
    /\ \E i, k \in DOMAIN queryReports :
          /\ queryReports[i].sbu_name = Absent
          /\ queryReports[i].indicator_type = Absent
          /\ queryReports[i].calculated_score = NoScore
          /\ ~Malformed(queryReports[k])
          /\ monthKey(queryReports[i].created_at) # monthKey(queryReports[k].created_at)

\* the four aggregates are the empty lists
EmptyAggregates ==
    /\ leaderboardData = << >>
    /\ performanceComparisonData = << >>
    /\ trendData = << >>
    /\ activityCompositionData = << >>

(***************************************************************************)
(* C22.  A failed fetch and a successful fetch of zero records end         *)
(* differently: the step that ends an invocation at a failed query shows   *)
(* the error toast and stores no aggregate and no live data; the step that *)
(* ends an invocation whose query returned zero records shows no error     *)
(* toast, and the invocation has stored the four empty aggregates.         *)
(***************************************************************************)
C22_FailureDiffersFromEmptySuccess ==
    [][/\ (pc \in {"reports_query", "profiles_query"} /\ pc' = "idle")
              => (errorToast' /\ UNCHANGED <<aggregates, liveData, aggregated>>)
       /\ (pc = "finally" /\ pc' = "idle" /\ queryReports = << >>)
              => (~errorToast' /\ aggregated' /\ EmptyAggregates')]_vars

\* a fetch of zero records has succeeded (the four builders have run on the
\* empty store) and the fetch after it has failed
C22_Witness ==
    /\ pc = "idle" /\ ~loading
    /\ errorToast
    /\ aggregated /\ reportsTable = << >> /\ EmptyAggregates

(***************************************************************************)
(* C23.  Once an invocation has loaded data with totalReports > 0 the      *)
(* live update runs: the interval is set, and so every period of 30        *)
(* seconds ends with its callback; and a period that ends while            *)
(* totalReports is 0 leaves liveData as it is.                             *)
(***************************************************************************)
C23_LiveUpdateRunsOnceLoaded ==
    [][/\ (aggregated' /\ pc' = "idle" /\ liveData'.totalReports > 0)
              => intervalId' = "timer"
       /\ (elapsed' # elapsed /\ liveData.totalReports = 0)
              => UNCHANGED liveData]_vars

(***************************************************************************)
(* C24.  loading is false only while no invocation of fetchAnalyticsData   *)
(* is in flight: no invocation clears it while another one is still        *)
(* waiting for a query or storing its results.                             *)
(***************************************************************************)
C24_LoadingFalseOnlyWhenIdle ==
    ~loading => (pc = "idle" /\ pc2 = "idle")

(***************************************************************************)
(* C25.  Every invocation of fetchAnalyticsData, fetchStats, fetchReports  *)
(* and fetchRecentActivity whose queries are answered comes to its end,    *)
(* and at its end the loading flag of its component is false: on success,  *)
(* on a query error and when no user is signed in.                         *)
(***************************************************************************)
C25_EveryInvocationClearsLoading ==
    /\ (pc # "idle") ~> (pc = "idle" /\ ~loading)
    /\ (statsPc # "idle") ~> (statsPc = "idle" /\ ~statsLoading)
    /\ (managementPc # "idle") ~> (managementPc = "idle" /\ ~managementLoading)
    /\ (activityPc # "idle") ~> (activityPc = "idle" /\ ~activityLoading)

\* no user is signed in: the three fetches that ask for the user have
\* returned at `if (!user) return`, and the analytics fetch has failed
C25_Witness ==
    /\ authUser = Absent
    /\ latest = 1 /\ pc = "idle" /\ errorToast /\ ~loading
    /\ statsPc = "idle" /\ ~statsLoading /\ stats = << >>
    /\ managementPc = "idle" /\ ~managementLoading /\ ~managementErrorToast
    /\ activityPc = "idle" /\ ~activityLoading /\ ~activityErrorToast

\* the ids of the reports that are rendered
shownIds == Range(idsOf(shownReports))

(***************************************************************************)
(* C26.  After any sequence of single selections, select-all toggles and   *)
(* changes of the filters and of the search term, the 'select all'         *)
(* checkbox shows checked only when every report of the filtered list is   *)
(* in selectedReports, and selectedReports holds no id from outside the    *)
(* filtered list.                                                          *)
(***************************************************************************)
C26_SelectionFollowsFilteredList ==
    /\ selectAllChecked => shownIds \subseteq Range(selectedReports)
    /\ Range(selectedReports) \subseteq shownIds

(***************************************************************************)
(* C28.  handleApproveReport and handleRejectReport only notify: the step  *)
(* of either handler adds its toast and leaves the reports of the list     *)
(* with their statuses, the loading flag, the filters, the search term,    *)
(* the selection and the table 'reports' of the store as they are.         *)
(***************************************************************************)
C28_ApproveAndRejectOnlyNotify ==
    [][managementToasts' # managementToasts =>
          /\ \E title \in {"Laporan Disetujui", "Laporan Ditolak"} :
                managementToasts' = Append(managementToasts, title)
          /\ UNCHANGED <<managementReports, managementLoading, filters,
                         selectedReports, reportsTable>>]_vars

\* a selected pending report has been approved and rejected under a status
\* filter, and is still pending
C28_Witness ==
    /\ managementToasts = <<"Laporan Disetujui", "Laporan Ditolak">>
    /\ statusFilter = "pending"
    /\ Len(shownReports) = 1
    /\ shownReports[1].status = "pending"
    /\ shownReports[1].id \in Range(selectedReports)
    /\ Len(managementReports) = 2

\* the Headers whose channel 'notification-count-changes' is subscribed
SubscribedHeaders == {h \in DOMAIN headers : headers[h].subscription = "subscribed"}
\* the Headers that are mounted
MountedHeaders == {h \in DOMAIN headers : headers[h].mounted}

(***************************************************************************)
(* C27.  The realtime channel of a Header is removed when the Header       *)
(* unmounts: there are never more subscribed channels than mounted         *)
(* Headers, and no notification event makes the callback of a channel      *)
(* call fetchNotificationCount for a Header that is not mounted.           *)
(***************************************************************************)
C27_ChannelRemovedOnUnmount ==
    [][/\ Cardinality(SubscribedHeaders') <= Cardinality(MountedHeaders')
       /\ \A h \in DOMAIN headers :
             headers'[h].eventFetches > headers[h].eventFetches
                 => headers[h].mounted]_vars

\* positions of the records that feed averageScore: the score is not null
ScoredRecords(rs) == {i \in 1..Len(rs) : rs[i].calculated_score # NoScore}
\* positions of the records with status approved or completed
ApprovedRecords(rs) == {i \in 1..Len(rs) : rs[i].status \in {"approved", "completed"}}

\* the stored approvalRate and averageScore are the quotients of the claim
HeadlineMetricsOf(rs) ==
    /\ liveData.totalReports = Len(rs)
    /\ liveData.approvalRate.den > 0
    /\ liveData.approvalRate.num >= 0
    /\ liveData.approvalRate.num <= 100 * liveData.approvalRate.den
    /\ Len(rs) > 0 =>
          liveData.approvalRate.num * Len(rs) =
              100 * Cardinality(ApprovedRecords(rs)) * liveData.approvalRate.den
    /\ liveData.averageScore.den > 0
    /\ ScoredRecords(rs) # {} =>
          liveData.averageScore.num * Cardinality(ScoredRecords(rs)) =
              SumScores(rs, ScoredRecords(rs)) * liveData.averageScore.den
    /\ ScoredRecords(rs) = {} => IsZero(liveData.averageScore)

(***************************************************************************)
(* C29.  After a successful fetch, approvalRate is 100 * (records with     *)
(* status approved or completed) / totalReports and lies in [0, 100];      *)
(* averageScore is the mean of the scores that are not null, and 0 when    *)
(* there is none; and every record that feeds averageScore, a record with  *)
(* score 0 included, feeds the leaderboard mean of its unit and the        *)
(* comparison mean of its indicator and unit.                              *)
(***************************************************************************)
C29_HeadlineMetricsShareTheScoredRecords ==
    LiveDataStored =>
        /\ HeadlineMetricsOf(queryReports)
        /\ LeaderboardBuilt =>
              \A i \in ScoredRecords(queryReports) :
                 queryReports[i].sbu_name # Absent =>
                    LET I == ScoredOfUnit(queryReports, queryReports[i].sbu_name)
                    IN  \E row \in RowsOf(leaderboardData) :
                           /\ row.sbu = queryReports[i].sbu_name
                           /\ row.score = ToFixed1(SumScores(queryReports, I),
                                                   Cardinality(I))
        /\ PerformanceBuilt =>
              \A i \in ScoredRecords(queryReports) :
                 (queryReports[i].sbu_name # Absent
                     /\ queryReports[i].indicator_type # Absent) =>
                    LET u == queryReports[i].sbu_name
                        I == ScoredOfCell(queryReports, queryReports[i].indicator_type, u)
                    IN  \E row \in RowsOf(performanceComparisonData) :
                           /\ row.indicator = queryReports[i].indicator_type
                           /\ u \in DOMAIN row.cells
                           /\ row.cells[u] = MathRound(SumScores(queryReports, I),
                                                       Cardinality(I))
====
